---- MODULE Spec2Model ----
(***************************************************************************)
(* Model of the virtual-PC deadlock simulator: vpc.map_host_to_virtual,    *)
(* decision_tree.compute_scores and the live update loop of app.py.        *)
(*                                                                         *)
(* Numbers.  The program computes with floats; the model computes the same *)
(* quantities exactly, in fixed point:                                     *)
(*   cpu_percent                    whole percent                          *)
(*   memory_percent                 hundredths of a percent                *)
(*   v_cpu_alloc, v_ram_alloc       hundredths (the code rounds both to 2  *)
(*                                  decimals), total_vram/total_vcpu too   *)
(*   w_cpu .. w_hist, score         thousandths in a record (the code      *)
(*                                  rounds them to 3 decimals)             *)
(*   the unrounded score            a numerator over SCORE_DEN             *)
(*   wait_times, refresh_interval   whole seconds                          *)
(* round(x, n) is round-half-to-even on the exact value.                   *)
(***************************************************************************)
EXTENDS Integers, Sequences, FiniteSets, TLC

VARIABLES
    pc,               \* position of the script: see the actions
    cycle,            \* number of loop iterations started (bookkeeping)
    ram_mb,           \* the binding of VIRTUAL_RAM_MB that app.py reads
    cpu_units,        \* the binding of VIRTUAL_CPU_UNITS that app.py reads
    system_ram_mb,    \* psutil.virtual_memory().total in MB
    refresh_interval, \* the sidebar slider's value
    wait_times,       \* st.session_state['wait_times']
    usage_history,    \* st.session_state['usage_history']
    killed_history,   \* st.session_state['killed_history']
    log,              \* the entries appended to st.session_state['log']
    df_host,          \* the host snapshot of the cycle
    visible_windows,  \* get_visible_windows() of the cycle
    df_virtual,       \* the virtual task batch of the cycle
    decisions,        \* compute_scores' result of the cycle
    adjusted,         \* df_virtual_adj
    score_map,        \* the eviction loop's score map
    total_vram,       \* total_vram
    total_vcpu,       \* total_vcpu
    evict_iters,      \* iterations of the eviction loop in this cycle (bookkeeping)
    session_file      \* what .session_store.json holds

vars == <<pc, cycle, ram_mb, cpu_units, system_ram_mb, refresh_interval, wait_times,
          usage_history, killed_history, log, df_host, visible_windows,
          df_virtual, decisions, adjusted, score_map, total_vram, total_vcpu,
          evict_iters, session_file>>

----------------------------------------------------------------------------
(* Program constants *)

VIRTUAL_RAM_MB == 1024
VIRTUAL_CPU_UNITS == 100

\* the coefficients, in hundredths
ALPHA_CPU == 35
BETA_RAM == 35
GAMMA_WAIT == 15
DELTA_VIS == 10
EPS_HISTORY == 5

IGNORE_LIST ==
    {"System Idle Process", "TextInputHost.exe", "svchost.exe",
     "RuntimeBroker.exe", "winlogon.exe", "SearchIndexer.exe",
     "System", "Idle"}

----------------------------------------------------------------------------
(* Arithmetic *)

Min(a, b) == IF a <= b THEN a ELSE b
Max(a, b) == IF a >= b THEN a ELSE b

\* <<q, r>> with a * b = q * c + r and 0 <= r < c, for a, b >= 0 and c > 0,
\* computed bit by bit so that no intermediate product leaves 32 bits.
RECURSIVE MulDivMod(_, _, _)
MulDivMod(a, b, c) ==
    IF b = 0 THEN <<0, 0>>
    ELSE LET h == MulDivMod(a, b \div 2, c)
             x == 2 * h[2] + (b % 2) * (a % c)
         IN  <<2 * h[1] + (b % 2) * (a \div c) + (x \div c), x % c>>

\* a * b / c rounded down
MulDivFloor(a, b, c) == MulDivMod(a, b, c)[1]

\* a * b / c rounded half to even: Python's round() and pandas' .round()
MulDivRound(a, b, c) ==
    LET qr == MulDivMod(a, b, c)
        q == qr[1]
        r == qr[2]
    IN  IF 2 * r > c THEN q + 1
        ELSE IF 2 * r < c THEN q
        ELSE IF q % 2 = 0 THEN q ELSE q + 1

\* n / d rounded half to even, for n >= 0 and d > 0
RoundDiv(n, d) ==
    LET q == n \div d
        r == n % d
    IN  IF 2 * r > d THEN q + 1
        ELSE IF 2 * r < d THEN q
        ELSE IF q % 2 = 0 THEN q ELSE q + 1

RECURSIVE SumCpuPercent(_)
\* df["cpu_percent"].sum()
SumCpuPercent(s) ==
    IF s = <<>> THEN 0 ELSE Head(s).cpu_percent + SumCpuPercent(Tail(s))

RECURSIVE SumVCpu(_)
\* df["v_cpu_alloc"].sum()
SumVCpu(s) ==
    IF s = <<>> THEN 0 ELSE Head(s).v_cpu_alloc + SumVCpu(Tail(s))

RECURSIVE SumVRam(_)
\* df["v_ram_alloc"].sum()
SumVRam(s) ==
    IF s = <<>> THEN 0 ELSE Head(s).v_ram_alloc + SumVRam(Tail(s))

RECURSIVE SumArea(_)
\* sum(v.get('area', 0) for v in visible_windows)
SumArea(s) ==
    IF s = <<>> THEN 0 ELSE Head(s).area + SumArea(Tail(s))

\* dict.get(k, d)
Get(d, k, default) == IF k \in DOMAIN d THEN d[k] ELSE default

\* d[k] = v
Put(d, k, v) == [x \in DOMAIN d \cup {k} |-> IF x = k THEN v ELSE d[x]]

\* the empty dict
EmptyDict == [x \in {} |-> 0]

----------------------------------------------------------------------------
(* vpc.map_host_to_virtual *)

\* df_host[df_host["memory_percent"] > 0.02]
FilterTiny(df) == SelectSeq(df, LAMBDA r : r.memory_percent > 2)

\* int(r.get('pid', -1) or -1)
PidOf(pid) == IF pid = 0 THEN -1 ELSE pid

\* "proc_<pid>" for a blank name (names arrive stripped)
ProcName(name, pid) == IF name = "" THEN "proc_" \o ToString(pid) ELSE name

\* v_cpu of one row, rounded to 2 decimals: the proportional share of the
\* units, clamped to 40% of them
\* faulty variant: the share taken from cpu_percent alone, not from the batch's total
MapCpuDirect(cpu, total_cpu, units) ==
    IF cpu <= 0 \/ total_cpu <= 0 THEN 0
    ELSE Min(cpu * units, units * 40)

MapCpu(cpu, total_cpu, units) ==
    IF cpu <= 0 \/ total_cpu <= 0 THEN 0
    ELSE Min(MulDivRound(cpu, units * 100, total_cpu), units * 40)

\* v_ram of one row, rounded to 2 decimals: the host MB of the process times
\* scaling_factor = min(1, ram / max(sys * 0.5, ram)), clamped to 90% of ram
MapRam(mem, sys, ram) ==
    LET ref2 == Max(sys, 2 * ram)     \* 2 * host_reference
        host == mem * sys             \* host_proc_ram_mb, in 1/10000 MB
    IN  IF mem <= 0 THEN 0
        ELSE IF ref2 > 0
             THEN Min(MulDivRound(host, 2 * ram, 100 * ref2), ram * 90)
             ELSE Min(RoundDiv(host, 100), ram * 90)

MapRow(r, total_cpu, sys, ram, units) ==
    [pid |-> PidOf(r.pid),
     name |-> ProcName(r.name, PidOf(r.pid)),
     v_cpu_alloc |-> MapCpu(r.cpu_percent, total_cpu, units),
     v_ram_alloc |-> MapRam(r.memory_percent, sys, ram)]

\* faulty variant: placeholder rows handed back when no sample is kept
map_host_or_placeholder(df, sys, ram, units) ==
    LET kept == FilterTiny(df)
        sum == SumCpuPercent(kept)
        total_cpu == IF sum = 0 THEN 1 ELSE sum
    IN  IF kept = <<>>
        THEN <<[pid |-> -1, name |-> "proc_-1", v_cpu_alloc |-> 0,
                v_ram_alloc |-> 0]>>
        ELSE [i \in 1..Len(kept) |->
                 MapRow(kept[i], total_cpu, sys, ram, units)]

map_host_to_virtual(df, sys, ram, units) ==
    LET kept == FilterTiny(df)
        sum == SumCpuPercent(kept)
        total_cpu == IF sum = 0 THEN 1 ELSE sum
    IN  [i \in 1..Len(kept) |-> MapRow(kept[i], total_cpu, sys, ram, units)]

----------------------------------------------------------------------------
(* decision_tree.compute_scores *)

\* The weights are numerators over WEIGHT_DEN, the least common multiple of
\* the normalizers 100 * VIRTUAL_CPU_UNITS, 100 * VIRTUAL_RAM_MB, 120 and 50;
\* the score is a numerator over SCORE_DEN = 100 * WEIGHT_DEN.
WEIGHT_DEN == 7680000
SCORE_DEN == 768000000

safe_name(value, pid) == IF value = "" THEN "proc_" \o ToString(pid) ELSE value

\* key of wait_times for the int pid of a row
IntKey(pid) == <<"int", pid>>

\* max(0.0, min(1.0, v_cpu / VIRTUAL_CPU_UNITS))
WCpu(v_cpu) ==
    Max(0, Min(v_cpu, 100 * VIRTUAL_CPU_UNITS))
        * (WEIGHT_DEN \div (100 * VIRTUAL_CPU_UNITS))

\* max(0.0, min(1.0, v_ram / VIRTUAL_RAM_MB))
WRam(v_ram) ==
    Max(0, Min(v_ram, 100 * VIRTUAL_RAM_MB))
        * (WEIGHT_DEN \div (100 * VIRTUAL_RAM_MB))

\* min(prev_wait / 120.0, 1.0)
WWait(prev_wait) == Min(prev_wait, 120) * (WEIGHT_DEN \div 120)

\* faulty variant: the history weight without its cap
WHistUnclamped(count) == count * (WEIGHT_DEN \div 50)

\* min(usage_history.get(name, 0) / 50.0, 1.0)
WHist(count) == Min(count, 50) * (WEIGHT_DEN \div 50)

\* vis_area / total_screen_area if total_screen_area > 0 else 0.0
WVis(vis_area, total_area) ==
    IF total_area > 0 THEN MulDivFloor(vis_area, WEIGHT_DEN, total_area) ELSE 0

\* sum of the areas if there are windows, else 1
TotalScreenArea(windows) == IF windows = <<>> THEN 1 ELSE SumArea(windows)

\* vis_by_pid[pid]['area']: a later window of the same pid replaces an earlier
RECURSIVE AreaByPid(_, _)
AreaByPid(windows, pid) ==
    IF windows = <<>> THEN 0
    ELSE LET w == windows[Len(windows)]
         IN  IF w.pid = pid THEN w.area
             ELSE AreaByPid(SubSeq(windows, 1, Len(windows) - 1), pid)

\* max(v['area'] for v in vis_by_name[name])
RECURSIVE MaxAreaByName(_, _)
MaxAreaByName(windows, name) ==
    IF windows = <<>> THEN 0
    ELSE LET rest == MaxAreaByName(Tail(windows), name)
         IN  IF Head(windows).process_name = name
             THEN Max(Head(windows).area, rest) ELSE rest

\* the screen area attributed to a task: by pid first, then by name
VisArea(windows, pid, name) ==
    IF \E i \in 1..Len(windows) : windows[i].pid = pid
    THEN AreaByPid(windows, pid)
    ELSE IF \E i \in 1..Len(windows) : windows[i].process_name = name
    THEN MaxAreaByName(windows, name)
    ELSE 0

\* faulty variant: the decrease without its floor at 0
NextWaitNoFloor(prev_wait, v_cpu, interval) ==
    IF v_cpu < 500 THEN prev_wait + interval ELSE prev_wait - interval

\* the wait accumulator of a task after this cycle
NextWait(prev_wait, v_cpu, interval) ==
    IF v_cpu < 500 THEN prev_wait + interval
    ELSE Max(0, prev_wait - interval)

\* faulty variant: every scored task counted as used
CountsAlways(vis_area, v_cpu) == TRUE

\* whether the usage counter of the task's name is incremented
CountsAsUse(vis_area, v_cpu) == vis_area > 0 \/ v_cpu > 100

\* the combined score, clamped to [0, 1], over SCORE_DEN
Score(v_cpu, v_ram, wait, vis_area, total_area, count) ==
    LET vis == IF total_area > 0
               THEN MulDivFloor(vis_area, DELTA_VIS * WEIGHT_DEN, total_area)
               ELSE 0
        raw == ALPHA_CPU * WCpu(v_cpu) + BETA_RAM * WRam(v_ram)
               + GAMMA_WAIT * WWait(wait) + vis + EPS_HISTORY * WHist(count)
    IN  Max(0, Min(SCORE_DEN, raw))

\* faulty variant: every low score labelled deadlocked
ActionLowIsDeadlocked(score) ==
    IF score >= 3 * (SCORE_DEN \div 4) THEN "kill"
    ELSE IF score >= 9 * (SCORE_DEN \div 20) THEN "preempt"
    ELSE "deadlocked"

\* the decision thresholds: score >= 0.75, score >= 0.45
Action(score) ==
    IF score >= 3 * (SCORE_DEN \div 4) THEN "kill"
    ELSE IF score >= 9 * (SCORE_DEN \div 20) THEN "preempt"
    ELSE "wait"

Reason(action) ==
    IF action = "kill"
    THEN "High combined virtual CPU+RAM load / visible / frequent"
    ELSE IF action = "preempt"
    THEN "Moderate virtual load - consider preemption"
    ELSE "Low load - keep waiting"

\* the scored record of one row, given the session values after its update
ScoredRow(pid, name, v_cpu, v_ram, wait, vis_area, total_area, count) ==
    LET score == Score(v_cpu, v_ram, wait, vis_area, total_area, count)
    IN  [pid |-> pid,
         name |-> name,
         v_cpu_alloc |-> v_cpu,
         v_ram_alloc |-> v_ram,
         w_cpu |-> RoundDiv(WCpu(v_cpu), WEIGHT_DEN \div 1000),
         w_ram |-> RoundDiv(WRam(v_ram), WEIGHT_DEN \div 1000),
         w_wait |-> RoundDiv(WWait(wait), WEIGHT_DEN \div 1000),
         w_vis |-> IF total_area > 0
                   THEN MulDivRound(vis_area, 1000, total_area) ELSE 0,
         w_hist |-> RoundDiv(WHist(count), WEIGHT_DEN \div 1000),
         score |-> RoundDiv(score, SCORE_DEN \div 1000),
         action |-> Action(score),
         reason |-> Reason(Action(score)),
         wait_time_sec |-> wait]

\* faulty variant: a row of the ignore list is left out of the results after
\* its wait time and usage count were updated
ScoreStepCountsIgnored(st, row, windows, interval) ==
    LET pid == PidOf(row.pid)
        name == safe_name(row.name, pid)
        v_cpu == row.v_cpu_alloc
        vis_area == VisArea(windows, pid, name)
        count0 == Get(st.usage_history, name, 0)
        count == IF CountsAsUse(vis_area, v_cpu) THEN count0 + 1 ELSE count0
        wait == NextWait(Get(st.wait_times, IntKey(pid), 0), v_cpu, interval)
    IN  [results |-> IF name \in IGNORE_LIST THEN st.results
                     ELSE Append(st.results,
                             ScoredRow(pid, name, v_cpu, row.v_ram_alloc, wait,
                                       vis_area, TotalScreenArea(windows),
                                       count)),
         wait_times |-> Put(st.wait_times, IntKey(pid), wait),
         usage_history |-> IF CountsAsUse(vis_area, v_cpu)
                           THEN Put(st.usage_history, name, count)
                           ELSE st.usage_history]

\* The loop over the rows: st = [results, wait_times, usage_history] is
\* threaded through them in order.
ScoreStep(st, row, windows, interval) ==
    LET pid == PidOf(row.pid)
        name == safe_name(row.name, pid)
        v_cpu == row.v_cpu_alloc
        v_ram == row.v_ram_alloc
        vis_area == VisArea(windows, pid, name)
        count0 == Get(st.usage_history, name, 0)
        count == IF CountsAsUse(vis_area, v_cpu) THEN count0 + 1 ELSE count0
        wait == NextWait(Get(st.wait_times, IntKey(pid), 0), v_cpu, interval)
    IN  IF name \in IGNORE_LIST THEN st
        ELSE [results |-> Append(st.results,
                             ScoredRow(pid, name, v_cpu, v_ram, wait, vis_area,
                                       TotalScreenArea(windows), count)),
              wait_times |-> Put(st.wait_times, IntKey(pid), wait),
              usage_history |-> IF CountsAsUse(vis_area, v_cpu)
                                THEN Put(st.usage_history, name, count)
                                ELSE st.usage_history]

RECURSIVE ScoreRows(_, _, _, _)
ScoreRows(st, rows, windows, interval) ==
    IF rows = <<>> THEN st
    ELSE ScoreRows(ScoreStep(st, Head(rows), windows, interval),
                   Tail(rows), windows, interval)

\* results.sort(key=lambda x: x['score'], reverse=True): stable, so records
\* of equal score keep their order
RECURSIVE InsertByScore(_, _)
InsertByScore(sorted, rec) ==
    IF sorted = <<>> THEN <<rec>>
    ELSE IF sorted[Len(sorted)].score >= rec.score THEN Append(sorted, rec)
    ELSE Append(InsertByScore(SubSeq(sorted, 1, Len(sorted) - 1), rec),
                sorted[Len(sorted)])

\* faulty variant: the results returned in the order of the rows
Unsorted(results) == results

RECURSIVE SortByScore(_)
SortByScore(results) ==
    IF results = <<>> THEN <<>>
    ELSE InsertByScore(SortByScore(SubSeq(results, 1, Len(results) - 1)),
                       results[Len(results)])

\* compute_scores: [results, wait_times, usage_history] after the call
compute_scores(virtual_df, windows, store_wait, store_usage, interval) ==
    LET st == ScoreRows([results |-> <<>>, wait_times |-> store_wait,
                         usage_history |-> store_usage],
                        virtual_df, windows, interval)
    IN  [results |-> SortByScore(st.results),
         wait_times |-> st.wait_times,
         usage_history |-> st.usage_history]

----------------------------------------------------------------------------
(* app.py, the body of the live update loop *)

\* the stable demo tasks injected into every batch
extra_tasks ==
    <<[pid |-> 9901, name |-> "AI_Optimizer", v_cpu_alloc |-> 500, v_ram_alloc |-> 4000],
      [pid |-> 9902, name |-> "MemoryBalancer", v_cpu_alloc |-> 400, v_ram_alloc |-> 3000],
      [pid |-> 9903, name |-> "DeadlockResolver", v_cpu_alloc |-> 300, v_ram_alloc |-> 2500]>>

\* round(v * 0.6, 2)
Preempted(v) == RoundDiv(v * 6, 10)

\* the row of df_virtual_adj for a decision that keeps its allocation
AdjustedRow(proc) ==
    IF proc.action = "preempt"
    THEN [pid |-> proc.pid, name |-> proc.name,
          v_cpu_alloc |-> Preempted(proc.v_cpu_alloc),
          v_ram_alloc |-> Preempted(proc.v_ram_alloc),
          action |-> "preempt", reason |-> proc.reason]
    ELSE [pid |-> proc.pid, name |-> proc.name,
          v_cpu_alloc |-> proc.v_cpu_alloc,
          v_ram_alloc |-> proc.v_ram_alloc,
          action |-> "wait", reason |-> proc.reason]

\* the entry of killed_history for a decision (the time stamp is left out)
KilledRow(proc) ==
    [pid |-> proc.pid, name |-> proc.name,
     v_cpu_alloc |-> proc.v_cpu_alloc, v_ram_alloc |-> proc.v_ram_alloc,
     score |-> proc.score, reason |-> proc.reason]

\* faulty variant: the kill branch missing
IsRemovedDeadlockedOnly(proc) == proc.action = "deadlocked"

\* whether the decision is removed and recorded in killed_history
IsRemoved(proc) == proc.action \in {"kill", "deadlocked"}

RECURSIVE AdjustedOf(_)
\* the list `adjusted` built by the loop over the decisions
AdjustedOf(decs) ==
    IF decs = <<>> THEN <<>>
    ELSE IF IsRemoved(Head(decs)) THEN AdjustedOf(Tail(decs))
    ELSE <<AdjustedRow(Head(decs))>> \o AdjustedOf(Tail(decs))

RECURSIVE KilledOf(_)
\* the entries the loop over the decisions appends to killed_history
KilledOf(decs) ==
    IF decs = <<>> THEN <<>>
    ELSE IF IsRemoved(Head(decs))
    THEN <<KilledRow(Head(decs))>> \o KilledOf(Tail(decs))
    ELSE KilledOf(Tail(decs))

\* faulty variant: the ratio applied to the CPU column as well
CompressedBoth(adj, ram, total) ==
    [i \in 1..Len(adj) |->
        [adj[i] EXCEPT !.v_ram_alloc = MulDivRound(@, ram * 100, total),
                       !.v_cpu_alloc = MulDivRound(@, ram * 100, total)]]

\* faulty variant: the scaled allocations cut to 2 decimals, not rounded
CompressedTruncated(adj, ram, total) ==
    [i \in 1..Len(adj) |->
        [adj[i] EXCEPT !.v_ram_alloc = MulDivFloor(@, ram * 100, total)]]

\* (df["v_ram_alloc"] * compression_ratio).round(2), the ratio being ram / total
Compressed(adj, ram, total) ==
    [i \in 1..Len(adj) |->
        [adj[i] EXCEPT !.v_ram_alloc = MulDivRound(@, ram * 100, total)]]

\* df_virtual_adj after the compression step
AfterCompression(adj, ram) ==
    LET total == SumVRam(adj)
    IN  IF total > 0 /\ total > ram * 100 THEN Compressed(adj, ram, total)
        ELSE adj

\* score_map = {d['pid']: d['score'] for d in decisions}, as the sequence of
\* its items in the dict's order: a pid keeps the place of its first decision
\* and takes the score of its last
RECURSIVE ScoreMapOf(_)
ScoreMapOf(decs) ==
    IF decs = <<>> THEN <<>>
    ELSE LET last == decs[Len(decs)]
             init == ScoreMapOf(SubSeq(decs, 1, Len(decs) - 1))
         IN  IF \E i \in 1..Len(init) : init[i].pid = last.pid
             THEN [i \in 1..Len(init) |->
                      IF init[i].pid = last.pid
                      THEN [pid |-> last.pid, score |-> last.score]
                      ELSE init[i]]
             ELSE Append(init, [pid |-> last.pid, score |-> last.score])

\* faulty variant: the first key of the greatest score
WorstPidHighest(smap) ==
    LET i == CHOOSE k \in 1..Len(smap) :
                 /\ \A j \in 1..Len(smap) : smap[k].score >= smap[j].score
                 /\ \A j \in 1..(k - 1) : smap[j].score < smap[k].score
    IN  smap[i].pid

\* min(score_map.keys(), key=...): the first key of the least score
WorstPid(smap) ==
    LET i == CHOOSE k \in 1..Len(smap) :
                 /\ \A j \in 1..Len(smap) : smap[k].score <= smap[j].score
                 /\ \A j \in 1..(k - 1) : smap[j].score > smap[k].score
    IN  smap[i].pid

\* faulty variant: the frame left as it is
WithoutPidKeeps(adj, pid) == adj

\* df[df["pid"] != worst_pid]
WithoutPid(adj, pid) == SelectSeq(adj, LAMBDA r : r.pid # pid)

\* faulty variant: the evicted pid left in the score map
PopPidKeeps(smap, pid) == smap

\* score_map.pop(worst_pid, None)
PopPid(smap, pid) == SelectSeq(smap, LAMBDA e : e.pid # pid)

\* faulty variant: the total compared in whole MB
EvictCondWholeMB(total, ram, adj, smap) ==
    (total \div 100) > ram /\ adj # <<>> /\ smap # <<>>

\* the condition of the eviction while-loop
EvictCond(total, ram, adj, smap) ==
    total > ram * 100 /\ adj # <<>> /\ smap # <<>>

\* variant: a status with no "Near Limit" band
StatusNoNearLimit(total, ram) ==
    IF total < ram * 80 THEN "Stable" ELSE "Overload"

\* the status string of the cycle
Status(total, ram) ==
    IF total < ram * 80 THEN "Stable"
    ELSE IF total < ram * 100 THEN "Near Limit"
    ELSE "Overload"

----------------------------------------------------------------------------
(* app.py, the session file *)

\* key of wait_times as JSON holds it: the pid's decimal text
StrKey(pid) == <<"str", pid>>

\* json.dump of a dict keyed by pids: every key is written as text, and where
\* the text key loaded at start and the int key added by compute_scores name
\* the same pid both items are written, the int key's last, so that a reader
\* keeps the int key's value
JsonObject(d) ==
    [k \in {StrKey(x[2]) : x \in DOMAIN d} |->
        IF IntKey(k[2]) \in DOMAIN d THEN d[IntKey(k[2])] ELSE d[k]]

\* the file's content: kind is "missing" (no file), "invalid" (not JSON),
\* "array" (JSON, but no object) or "object"
FileOf(kind, wait, usage) ==
    [kind |-> kind, wait_times |-> wait, usage_history |-> usage]

\* save_session_store({'wait_times': ..., 'usage_history': ...})
save_session_store(wait, usage) == FileOf("object", JsonObject(wait), usage)

\* load_session_store(): {} for a missing or unparsable file, else the value
\* json.load returns
load_session_store(file) ==
    IF file.kind \in {"missing", "invalid"}
    THEN FileOf("object", EmptyDict, EmptyDict)
    ELSE file

\* persisted.get(key) and not st.session_state.get(key): the persisted dict is
\* taken when it is non-empty and the session's is empty
Rehydrated(persisted, current) ==
    IF DOMAIN persisted # {} /\ DOMAIN current = {} THEN persisted
    ELSE current

----------------------------------------------------------------------------
(* Inputs: what the host, the screen and an earlier run of the script in the
   same session can hand to the loop *)

\* bounds of the model
MaxCycles == 2

Sample(pid, name, cpu, mem) ==
    [pid |-> pid, name |-> name, cpu_percent |-> cpu, memory_percent |-> mem]

Window(pid, name, area) ==
    [pid |-> pid, process_name |-> name, title |-> "t", area |-> area]

\* host snapshots: memory below the filter only; three busy processes
\* holding 10%, 20% and 30% of the host's memory; a noise process beside an
\* idle one; one process taking the whole CPU and half of
\* the memory beside two idle ones holding 8% and 40% of it
HostBatches ==
    {<<Sample(1, "chrome.exe", 50, 1)>>,
     <<Sample(1, "chrome.exe", 40, 1000), Sample(2, "code.exe", 30, 2000),
       Sample(3, "python.exe", 30, 3000)>>,
     <<Sample(4, "svchost.exe", 10, 200), Sample(2, "code.exe", 0, 50)>>,
     <<Sample(1, "chrome.exe", 100, 5000), Sample(2, "code.exe", 0, 800),
       Sample(3, "python.exe", 0, 4000)>>}

\* window snapshots: none; one window of chrome.exe; two windows
WindowChoices ==
    {<<>>,
     <<Window(1, "chrome.exe", 480000)>>,
     <<Window(1, "chrome.exe", 360000), Window(7, "code.exe", 120000)>>}

\* the slider's range is 2..6; its default and its greatest value
RefreshChoices == {3, 6}

\* total memory of the host, in MB
HostRamChoices == {2048, 8192}

\* st.session_state at the start of a run of the script: empty in a new
\* session, or what earlier runs of the loop in this session left
SessionChoices ==
    {[wait_times |-> EmptyDict, usage_history |-> EmptyDict],
     [wait_times |-> (IntKey(1) :> 126) @@ (IntKey(2) :> 90)
                     @@ (IntKey(4) :> 30),
      usage_history |-> ("chrome.exe" :> 50) @@ ("code.exe" :> 3)
                        @@ ("svchost.exe" :> 7)]}

\* .session_store.json at the start of a run: absent; not JSON; a JSON array;
\* the object an earlier process saved
FileChoices ==
    {FileOf("missing", EmptyDict, EmptyDict),
     FileOf("invalid", EmptyDict, EmptyDict),
     FileOf("array", EmptyDict, EmptyDict),
     FileOf("object", (StrKey(1) :> 126) @@ (StrKey(2) :> 90),
            ("chrome.exe" :> 50) @@ ("code.exe" :> 3))}

----------------------------------------------------------------------------
(* The script *)

InitSession(at, sess, file, interval, sys) ==
    /\ pc = at
    /\ session_file = file
    /\ cycle = 0
    /\ ram_mb = VIRTUAL_RAM_MB
    /\ cpu_units = VIRTUAL_CPU_UNITS
    /\ system_ram_mb = sys
    /\ refresh_interval = interval
    /\ wait_times = sess.wait_times
    /\ usage_history = sess.usage_history
    /\ killed_history = <<>>
    /\ log = <<>>
    /\ df_host = <<>>
    /\ visible_windows = <<>>
    /\ df_virtual = <<>>
    /\ decisions = <<>>
    /\ adjusted = <<>>
    /\ score_map = <<>>
    /\ total_vram = 0
    /\ total_vcpu = 0
    /\ evict_iters = 0

\* the script starts in a session that is new or that earlier runs of the
\* script have filled
Init ==
    \E sess \in SessionChoices, file \in FileChoices,
       interval \in RefreshChoices, sys \in HostRamChoices :
        InitSession("start", sess, file, interval, sys)

\* load persisted: persisted.get raises on a value that is no dict
LoadPersisted ==
    /\ pc = "start"
    /\ LET persisted == load_session_store(session_file)
       IN  IF persisted.kind # "object"
           THEN /\ pc' = "crashed"
                /\ UNCHANGED <<wait_times, usage_history>>
           ELSE /\ pc' = "top"
                /\ wait_times' = Rehydrated(persisted.wait_times, wait_times)
                /\ usage_history' = Rehydrated(persisted.usage_history,
                                               usage_history)
    /\ UNCHANGED <<session_file, cycle, ram_mb, cpu_units, system_ram_mb,
                   refresh_interval, killed_history, log, df_host,
                   visible_windows, df_virtual, decisions, adjusted, score_map,
                   total_vram, total_vcpu, evict_iters>>

\* the process ends between two cycles and the script is started again in a
\* new session: the session defaults, the slider at its default 3
Restart ==
    /\ pc = "top"
    /\ cycle >= 1
    /\ cycle < MaxCycles
    /\ pc' = "start"
    /\ wait_times' = EmptyDict
    /\ usage_history' = EmptyDict
    /\ killed_history' = <<>>
    /\ log' = <<>>
    /\ refresh_interval' = 3
    /\ UNCHANGED <<session_file, cycle, ram_mb, cpu_units, system_ram_mb,
                   df_host, visible_windows, df_virtual, decisions, adjusted,
                   score_map, total_vram, total_vcpu, evict_iters>>

\* 1) gather host snapshot: a snapshot with processes starts a cycle
TakeSample(batch, windows) ==
    /\ pc = "top"
    /\ cycle < MaxCycles
    /\ batch # <<>>
    /\ pc' = "map"
    /\ cycle' = cycle + 1
    /\ df_host' = batch
    /\ visible_windows' = windows
    /\ df_virtual' = <<>>
    /\ decisions' = <<>>
    /\ adjusted' = <<>>
    /\ score_map' = <<>>
    /\ total_vram' = 0
    /\ total_vcpu' = 0
    /\ evict_iters' = 0
    /\ UNCHANGED <<session_file, ram_mb, cpu_units, system_ram_mb, refresh_interval, wait_times,
                   usage_history, killed_history, log>>

\* 1) an empty snapshot: st.warning(...) and break
EmptySample ==
    /\ pc = "top"
    /\ cycle < MaxCycles
    /\ pc' = "stopped"
    /\ cycle' = cycle + 1
    /\ df_host' = <<>>
    /\ visible_windows' = <<>>
    /\ df_virtual' = <<>>
    /\ decisions' = <<>>
    /\ adjusted' = <<>>
    /\ score_map' = <<>>
    /\ total_vram' = 0
    /\ total_vcpu' = 0
    /\ evict_iters' = 0
    /\ UNCHANGED <<session_file, ram_mb, cpu_units, system_ram_mb, refresh_interval, wait_times,
                   usage_history, killed_history, log>>

\* 2) map host -> virtual and inject the demo tasks
MapAndInject ==
    /\ pc = "map"
    /\ pc' = "score"
    /\ df_virtual' = map_host_to_virtual(df_host, system_ram_mb,
                                         ram_mb, cpu_units)
                     \o extra_tasks
    /\ UNCHANGED <<session_file, cycle, ram_mb, cpu_units, system_ram_mb, refresh_interval, wait_times,
                   usage_history, killed_history, log, df_host,
                   visible_windows, decisions, adjusted, score_map,
                   total_vram, total_vcpu, evict_iters>>

\* 3) scoring, and the session store written back
ScoreBatch ==
    /\ pc = "score"
    /\ pc' = "apply"
    /\ LET out == compute_scores(df_virtual, visible_windows, wait_times,
                                 usage_history, refresh_interval)
       IN  /\ decisions' = out.results
           /\ wait_times' = out.wait_times
           /\ usage_history' = out.usage_history
           /\ session_file' = save_session_store(out.wait_times,
                                                 out.usage_history)
    /\ UNCHANGED <<cycle, ram_mb, cpu_units, system_ram_mb, refresh_interval,
                   killed_history, log, df_host, visible_windows, df_virtual,
                   adjusted, score_map, total_vram, total_vcpu, evict_iters>>

\* 4) apply actions
ApplyActions ==
    /\ pc = "apply"
    /\ pc' = "recover"
    /\ adjusted' = AdjustedOf(decisions)
    /\ killed_history' = killed_history \o KilledOf(decisions)
    /\ UNCHANGED <<session_file, cycle, ram_mb, cpu_units, system_ram_mb, refresh_interval, wait_times,
                   usage_history, log, df_host, visible_windows, df_virtual,
                   decisions, score_map, total_vram, total_vcpu, evict_iters>>

\* 5) auto recovery/compression, up to the entry of the eviction loop
Recover ==
    /\ pc = "recover"
    /\ LET adj == AfterCompression(adjusted, ram_mb)
           total == SumVRam(adj)
       IN  /\ adjusted' = adj
           /\ total_vram' = total
           /\ total_vcpu' = SumVCpu(adjusted)
           /\ IF total > ram_mb * 100
              THEN pc' = "evict" /\ score_map' = ScoreMapOf(decisions)
              ELSE pc' = "finish" /\ score_map' = score_map
    /\ UNCHANGED <<session_file, cycle, ram_mb, cpu_units, system_ram_mb, refresh_interval, wait_times,
                   usage_history, killed_history, log, df_host,
                   visible_windows, df_virtual, decisions, evict_iters>>

\* one iteration of the eviction loop
EvictStep ==
    /\ pc = "evict"
    /\ EvictCond(total_vram, ram_mb, adjusted, score_map)
    /\ LET worst_pid == WorstPid(score_map)
           adj == WithoutPid(adjusted, worst_pid)
       IN  /\ adjusted' = adj
           /\ score_map' = PopPid(score_map, worst_pid)
           /\ total_vram' = SumVRam(adj)
    /\ evict_iters' = evict_iters + 1
    /\ UNCHANGED <<session_file, pc, cycle, ram_mb, cpu_units, system_ram_mb, refresh_interval,
                   wait_times, usage_history, killed_history, log, df_host,
                   visible_windows, df_virtual, decisions, total_vcpu>>

\* the eviction loop's condition is false: the loop is left
EvictExit ==
    /\ pc = "evict"
    /\ ~EvictCond(total_vram, ram_mb, adjusted, score_map)
    /\ pc' = "finish"
    /\ UNCHANGED <<session_file, cycle, ram_mb, cpu_units, system_ram_mb, refresh_interval, wait_times,
                   usage_history, killed_history, log, df_host,
                   visible_windows, df_virtual, decisions, adjusted, score_map,
                   total_vram, total_vcpu, evict_iters>>

\* the log keeps its last 500 entries
LogLimit == 500

\* total_vcpu, 6) the status, the log entry, 7) rendering, and the sleep
Finish ==
    /\ pc = "finish"
    /\ pc' = "top"
    /\ total_vcpu' = SumVCpu(adjusted)
    /\ LET entry == [status |-> Status(total_vram, ram_mb),
                     total_vram |-> total_vram,
                     total_vcpu |-> SumVCpu(adjusted)]
           all == Append(log, entry)
       IN  log' = IF Len(all) > LogLimit
                  THEN SubSeq(all, Len(all) - LogLimit + 1, Len(all))
                  ELSE all
    /\ UNCHANGED <<session_file, cycle, ram_mb, cpu_units, system_ram_mb, refresh_interval, wait_times,
                   usage_history, killed_history, df_host, visible_windows,
                   df_virtual, decisions, adjusted, score_map, total_vram,
                   evict_iters>>

Next ==
    \/ LoadPersisted
    \/ Restart
    \/ \E batch \in HostBatches, windows \in WindowChoices :
           TakeSample(batch, windows)
    \/ EmptySample
    \/ MapAndInject
    \/ ScoreBatch
    \/ ApplyActions
    \/ Recover
    \/ EvictStep
    \/ EvictExit
    \/ Finish

Spec == Init /\ [][Next]_vars

----------------------------------------------------------------------------
(* A starved task: the loop from a new session, every snapshot holding one
   process at 0.5% of the sampled CPU beside two busy ones *)

MaxHoldCycles == 32

\* pid of the starved process
HeldPid == 5

HeldBatch ==
    <<Sample(HeldPid, "notepad.exe", 1, 100), Sample(1, "chrome.exe", 100, 100),
      Sample(2, "code.exe", 99, 100)>>

InitHold ==
    \E interval \in RefreshChoices, sys \in HostRamChoices :
        InitSession("top",
                    [wait_times |-> EmptyDict, usage_history |-> EmptyDict],
                    FileOf("missing", EmptyDict, EmptyDict), interval, sys)

TakeHeldSample ==
    /\ pc = "top"
    /\ cycle < MaxHoldCycles
    /\ pc' = "map"
    /\ cycle' = cycle + 1
    /\ df_host' = HeldBatch
    /\ visible_windows' = <<>>
    /\ df_virtual' = <<>>
    /\ decisions' = <<>>
    /\ adjusted' = <<>>
    /\ score_map' = <<>>
    /\ total_vram' = 0
    /\ total_vcpu' = 0
    /\ evict_iters' = 0
    /\ UNCHANGED <<session_file, ram_mb, cpu_units, system_ram_mb, refresh_interval,
                   wait_times, usage_history, killed_history, log>>

NextHold ==
    \/ TakeHeldSample
    \/ MapAndInject
    \/ ScoreBatch
    \/ ApplyActions
    \/ Recover
    \/ Finish

SpecHold == InitHold /\ [][NextHold]_vars

----------------------------------------------------------------------------
(* The functions on their own: map_host_to_virtual, compute_scores and the
   recovery stage applied in turn to inputs drawn from bounded sets, with no
   demo tasks injected and for several capacities *)

\* longest batch drawn
MaxBatch == 3

Task(pid, name, v_cpu, v_ram) ==
    [pid |-> pid, name |-> name, v_cpu_alloc |-> v_cpu, v_ram_alloc |-> v_ram]

\* sequences over S of length at most n
SeqsUpTo(S, n) == UNION {[1..k -> S] : k \in 0..n}

FnSamples ==
    {Sample(1, "chrome.exe", 100, 5000), Sample(2, "code.exe", 1, 1000),
     Sample(3, "python.exe", 0, 1)}

FnTasks ==
    {Task(1, "chrome.exe", 4500, 48000), Task(2, "code.exe", 50, 30000),
     Task(3, "python.exe", 10000, 92160), Task(4, "svchost.exe", 2000, 20000),
     Task(5, "notepad.exe", 4000, 90276)}

FnWindowChoices == {<<>>, <<Window(3, "python.exe", 480000)>>}

FnSessionChoices ==
    {[wait_times |-> EmptyDict, usage_history |-> EmptyDict],
     [wait_times |-> (IntKey(1) :> 126) @@ (IntKey(2) :> 90)
                     @@ (IntKey(4) :> 30),
      usage_history |-> ("chrome.exe" :> 50) @@ ("python.exe" :> 50)
                        @@ ("svchost.exe" :> 7)]}

\* capacities: none, the low-end profile, the standard profile
CapacityChoices == {0, 512, 1024}
UnitChoices == {50, 100}

InitFnCommon(sess, windows, interval, ram) ==
    /\ cycle = 0
    /\ session_file = FileOf("missing", EmptyDict, EmptyDict)
    /\ ram_mb = ram
    /\ refresh_interval = interval
    /\ wait_times = sess.wait_times
    /\ usage_history = sess.usage_history
    /\ killed_history = <<>>
    /\ log = <<>>
    /\ visible_windows = windows
    /\ decisions = <<>>
    /\ adjusted = <<>>
    /\ score_map = <<>>
    /\ total_vram = 0
    /\ total_vcpu = 0
    /\ evict_iters = 0

InitFn ==
    \E sess \in FnSessionChoices, windows \in FnWindowChoices,
       interval \in RefreshChoices, ram \in CapacityChoices :
        /\ InitFnCommon(sess, windows, interval, ram)
        /\ \/ /\ pc = "fn_map"
              /\ df_host \in SeqsUpTo(FnSamples, MaxBatch)
              /\ df_virtual = <<>>
              /\ cpu_units \in UnitChoices
              /\ system_ram_mb \in HostRamChoices
           \/ /\ pc = "score"
              /\ df_host = <<>>
              /\ df_virtual \in SeqsUpTo(FnTasks, MaxBatch)
              /\ cpu_units = VIRTUAL_CPU_UNITS
              /\ system_ram_mb = 0

\* map_host_to_virtual(df_host, ram_mb, cpu_units), its result handed on as is
MapOnly ==
    /\ pc = "fn_map"
    /\ pc' = "score"
    /\ df_virtual' = map_host_to_virtual(df_host, system_ram_mb, ram_mb,
                                         cpu_units)
    /\ UNCHANGED <<session_file, cycle, ram_mb, cpu_units, system_ram_mb, refresh_interval,
                   wait_times, usage_history, killed_history, log, df_host,
                   visible_windows, decisions, adjusted, score_map,
                   total_vram, total_vcpu, evict_iters>>

NextFn ==
    \/ MapOnly
    \/ ScoreBatch
    \/ ApplyActions
    \/ Recover
    \/ EvictStep
    \/ EvictExit
    \/ Finish

SpecFn == InitFn /\ [][NextFn]_vars

----------------------------------------------------------------------------
(* Properties *)

\* the decisions of the cycle, as a set of indices
Scored == 1..Len(decisions)

\* C1: at the end of the recovery stage of a cycle the survivor set is empty
\* or the survivors' v_ram_alloc sums to at most the capacity.
C1_RecoveredWithinCapacity ==
    pc = "finish" => (adjusted = <<>> \/ SumVRam(adjusted) <= ram_mb * 100)

\* C1 witness: a cycle whose compression overshot the capacity, so that a
\* task was evicted, ends with survivors within the capacity.
C1_Witness ==
    /\ pc = "finish"
    /\ evict_iters > 0
    /\ adjusted # <<>>
    /\ SumVRam(adjusted) <= ram_mb * 100

\* C2: the eviction loop terminates for every classified batch and capacity:
\* every step taken inside the loop either leaves it or strictly shrinks
\* score_map, and with no survivor left the step taken leaves it.
C2_EvictionTerminates ==
    [][pc = "evict" =>
          /\ pc' = "finish" \/ (pc' = "evict" /\ Len(score_map') < Len(score_map))
          /\ adjusted = <<>> => pc' = "finish"]_vars

\* C2 witness: an eviction that removed the last survivors has left the loop.
C2_Witness ==
    /\ pc = "finish"
    /\ evict_iters > 0
    /\ adjusted = <<>>

\* C3 (as claimed): a task held below the idle threshold is classified
\* 'deadlocked' once its wait weight exceeds 0.75 while its CPU weight is
\* below 0.02.
C3_HeldTaskDeadlocked ==
    \A i \in Scored :
        (decisions[i].pid = HeldPid /\ decisions[i].w_wait > 750
            /\ decisions[i].w_cpu < 20)
        => decisions[i].action = "deadlocked"

\* C4: a scored task has action 'deadlocked' only if its wait weight is above
\* 0.75 and its CPU weight is below 0.02.
C4_DeadlockedOnlyIfStarved ==
    \A i \in Scored :
        decisions[i].action = "deadlocked"
        => (decisions[i].w_wait > 750 /\ decisions[i].w_cpu < 20)

\* C4 witness: tasks were scored, among them one that does not meet the two
\* thresholds and one that does; neither is labelled deadlocked.
C4_Witness ==
    /\ \E i \in Scored :
          /\ ~(decisions[i].w_wait > 750 /\ decisions[i].w_cpu < 20)
          /\ decisions[i].action # "deadlocked"
    /\ \E i \in Scored :
          /\ decisions[i].w_wait > 750 /\ decisions[i].w_cpu < 20
          /\ decisions[i].action # "deadlocked"

InUnit(w) == 0 <= w /\ w <= 1000

\* C5: every weight and the score of every scored task lie in [0, 1].
C5_WeightsInUnitInterval ==
    \A i \in Scored :
        /\ InUnit(decisions[i].w_cpu)
        /\ InUnit(decisions[i].w_ram)
        /\ InUnit(decisions[i].w_wait)
        /\ InUnit(decisions[i].w_vis)
        /\ InUnit(decisions[i].w_hist)
        /\ InUnit(decisions[i].score)

\* C5 witness: a scored task whose usage count passed the saturation of 50
\* and whose wait passed 120 s, with a visible window.
C5_Witness ==
    \E i \in Scored :
        /\ Get(usage_history, decisions[i].name, 0) > 50
        /\ decisions[i].w_hist = 1000
        /\ decisions[i].wait_time_sec >= 120
        /\ decisions[i].w_wait = 1000
        /\ decisions[i].w_vis > 0

\* C6: for a non-empty host batch the v_cpu_alloc returned by
\* map_host_to_virtual sum to at most the units, up to half a hundredth of
\* rounding per row.
C6_MappedCpuWithinUnits ==
    (df_host # <<>> /\ pc = "score")
    => 2 * SumVCpu(df_virtual) <= 2 * cpu_units * 100 + Len(df_virtual)

\* C6 witness: three samples mapped, one of them clamped to 40% of the units.
C6_Witness ==
    /\ df_host # <<>>
    /\ pc = "score"
    /\ Len(df_virtual) = 3
    /\ \E i \in 1..3 : df_virtual[i].v_cpu_alloc = cpu_units * 40
    /\ SumVCpu(df_virtual) > cpu_units * 50

\* C7 (as claimed): the virtual CPU in use that a cycle reports does not
\* exceed the units.
C7_TotalCpuWithinUnits ==
    \A i \in 1..Len(log) : log[i].total_vcpu <= cpu_units * 100

\* C8 (as claimed): an empty host snapshot does not end the loop.
C8_LoopSurvivesEmptyBatch ==
    ~(df_host = <<>> /\ cycle > 0 /\ pc = "stopped")

\* C9: for an empty batch map_host_to_virtual returns no row, compute_scores
\* on no row returns no decision, and the recovery stage on no decision
\* leaves no survivor.
C9_EmptyBatchStaysEmpty ==
    [][/\ (pc = "fn_map" /\ df_host = <<>>) => df_virtual' = <<>>
       /\ (pc = "score" /\ df_virtual = <<>>) => decisions' = <<>>
       /\ (pc \in {"apply", "recover", "evict"} /\ decisions = <<>>)
              => (adjusted' = <<>> /\ pc' # "evict")]_vars

\* C9 witness: the three stages have run on an empty host batch.
C9_Witness ==
    /\ pc = "finish"
    /\ system_ram_mb > 0
    /\ df_host = <<>>
    /\ df_virtual = <<>>
    /\ decisions = <<>>
    /\ adjusted = <<>>

\* C10 (as claimed): the single task v_cpu_alloc = 45, v_ram_alloc = 480 gets
\* w_cpu = 0.9 and action 'kill'.
C10_ScenarioA ==
    (df_virtual = <<Task(1, "chrome.exe", 4500, 48000)>> /\ decisions # <<>>)
    => (decisions[1].w_cpu = 900 /\ decisions[1].action = "kill")

\* C11: when the survivors' total RAM exceeds the capacity after the actions
\* are applied, compression sets every survivor's v_ram_alloc to its value
\* times capacity / total, to the nearest hundredth, and the new total is the
\* capacity up to half a hundredth per survivor.
C11_CompressionScalesUniformly ==
    LET pre == AdjustedOf(decisions)
        total == SumVRam(pre)
        sum == SumVRam(adjusted)
    IN  (pc \in {"evict", "finish"} /\ evict_iters = 0 /\ total > ram_mb * 100)
        => /\ Len(adjusted) = Len(pre)
           /\ \A i \in 1..Len(pre) :
                 LET qr == MulDivMod(pre[i].v_ram_alloc, ram_mb * 100, total)
                     v == adjusted[i].v_ram_alloc
                 IN  \/ v = qr[1] /\ 2 * qr[2] <= total
                     \/ v = qr[1] + 1 /\ 2 * qr[2] >= total
           /\ 2 * (sum - ram_mb * 100) <= Len(pre)
           /\ 2 * (ram_mb * 100 - sum) <= Len(pre)

\* C11 witness: survivors of 600 MB in all were compressed to the capacity of
\* 512 MB.
C11_Witness ==
    /\ pc = "finish"
    /\ evict_iters = 0
    /\ ram_mb = 512
    /\ SumVRam(AdjustedOf(decisions)) = 60000
    /\ Len(adjusted) = 2
    /\ SumVRam(adjusted) = 51200

\* C13: for a task whose name is in the ignore list compute_scores returns no
\* entry and leaves the wait time of its pid and the usage count of its name
\* as they were (absent stays absent), in every cycle.
C13_IgnoredTasksUntouched ==
    [][pc = "score" =>
          \A i \in 1..Len(df_virtual) :
              LET pid == PidOf(df_virtual[i].pid)
                  name == safe_name(df_virtual[i].name, pid)
                  shared == \E j \in 1..Len(df_virtual) :
                                /\ PidOf(df_virtual[j].pid) = pid
                                /\ df_virtual[j].name \notin IGNORE_LIST
              IN  name \in IGNORE_LIST =>
                      /\ \A j \in 1..Len(decisions') :
                             decisions'[j].name # name
                      /\ (name \in DOMAIN usage_history')
                             = (name \in DOMAIN usage_history)
                      /\ Get(usage_history', name, 0)
                             = Get(usage_history, name, 0)
                      /\ ~shared =>
                             /\ (IntKey(pid) \in DOMAIN wait_times')
                                    = (IntKey(pid) \in DOMAIN wait_times)
                             /\ Get(wait_times', IntKey(pid), 0)
                                    = Get(wait_times, IntKey(pid), 0)]_vars

\* C13 witness: a batch with an svchost.exe row was scored; the other rows
\* have entries, and the wait time and usage count the session held for
\* svchost.exe are still 30 s and 7.
C13_Witness ==
    /\ pc = "apply"
    /\ \E i \in 1..Len(df_virtual) : df_virtual[i].name = "svchost.exe"
    /\ decisions # <<>>
    /\ \A j \in Scored : decisions[j].name # "svchost.exe"
    /\ Get(wait_times, IntKey(4), 0) = 30
    /\ Get(usage_history, "svchost.exe", 0) = 7

\* C14: within a run of the script no usage count ever decreases; a scoring
\* step raises the count of a name by the number of scored rows of that name
\* that are visible or hold more than 1.0 CPU unit, and by nothing else; and a
\* process started after a cycle takes up the counts that cycle saved.
C14_UsageMonotonic ==
    [][/\ (pc # "start" /\ pc' # "start") =>
              \A n \in DOMAIN usage_history :
                  /\ n \in DOMAIN usage_history'
                  /\ usage_history'[n] >= usage_history[n]
       /\ pc = "score" =>
              \A n \in DOMAIN usage_history' :
                  Get(usage_history', n, 0) - Get(usage_history, n, 0)
                      = Cardinality(
                            {i \in 1..Len(df_virtual) :
                                LET pid == PidOf(df_virtual[i].pid)
                                    name == safe_name(df_virtual[i].name, pid)
                                IN  /\ name = n
                                    /\ n \notin IGNORE_LIST
                                    /\ \/ VisArea(visible_windows, pid, n) > 0
                                       \/ df_virtual[i].v_cpu_alloc > 100})
       /\ (pc = "start" /\ pc' = "top" /\ cycle >= 1) =>
              \A n \in DOMAIN session_file.usage_history :
                  Get(usage_history', n, 0) >= session_file.usage_history[n]
      ]_vars

\* C14 witness: after two cycles of a new session a demo task, busy in both,
\* has count 2, while a scored task that was idle and not visible has none.
C14_Witness ==
    /\ pc = "apply"
    /\ cycle = 2
    /\ Get(usage_history, "AI_Optimizer", 0) = 2
    /\ \E i \in Scored :
          /\ decisions[i].v_cpu_alloc <= 100
          /\ decisions[i].w_vis = 0
          /\ decisions[i].name \notin DOMAIN usage_history

\* C15 (as claimed): the first scoring cycle of a process that rehydrated
\* the session from the file an earlier cycle saved continues every persisted
\* wait time (plus the interval for an idle task, minus it, floored at 0, for
\* a busy one) and every persisted usage count (kept, or raised by the rows
\* of that name).
C15_SessionRoundTrips ==
    [][(/\ pc = "score"
        /\ cycle >= 2
        /\ session_file.kind = "object"
        /\ DOMAIN wait_times # {}
        /\ wait_times = session_file.wait_times
        /\ usage_history = session_file.usage_history) =>
           \A i \in 1..Len(decisions') :
               LET d == decisions'[i]
                   saved == session_file.wait_times
               IN  /\ StrKey(d.pid) \in DOMAIN saved =>
                          d.wait_time_sec
                              = IF d.v_cpu_alloc < 500
                                THEN saved[StrKey(d.pid)] + refresh_interval
                                ELSE Max(0, saved[StrKey(d.pid)]
                                               - refresh_interval)
                   /\ d.name \in DOMAIN session_file.usage_history =>
                          usage_history'[d.name]
                              >= session_file.usage_history[d.name]]_vars

\* C16 (as claimed): with a session file that is missing, not JSON, or JSON
\* but no object, the script passes the load step without error, takes
\* nothing from the file and goes on to its loop.
C16_CorruptFileStartsEmpty ==
    [][(pc = "start" /\ session_file.kind \in {"missing", "invalid", "array"})
           => /\ pc' = "top"
              /\ wait_times' = wait_times
              /\ usage_history' = usage_history]_vars

\* C17: the list compute_scores returns is in non-increasing order of score.
C17_SortedByScore ==
    \A i \in 1..(Len(decisions) - 1) :
        decisions[i].score >= decisions[i + 1].score

\* C17 witness: three rows of different pids were scored, the first row has
\* the least score and stands last in the result.
C17_Witness ==
    /\ pc = "apply"
    /\ Len(df_virtual) = 3
    /\ Len(decisions) = 3
    /\ decisions[3].pid = df_virtual[1].pid
    /\ decisions[1].pid # decisions[2].pid
    /\ decisions[1].score > decisions[2].score
    /\ decisions[2].score > decisions[3].score

\* C18: applying the actions of a cycle leaves no row in the adjusted set for
\* a task classified kill or deadlocked, and appends to killed_history one
\* entry per such task, holding the pid, name, allocation and score of its
\* decision; the earlier entries stay.
C18_KilledRemovedAndRecorded ==
    [][pc = "apply" =>
          LET K == {i \in Scored :
                       decisions[i].action \in {"kill", "deadlocked"}}
              old == Len(killed_history)
              New == (old + 1)..Len(killed_history')
              Same(e, d) == /\ e.pid = d.pid
                            /\ e.name = d.name
                            /\ e.v_cpu_alloc = d.v_cpu_alloc
                            /\ e.v_ram_alloc = d.v_ram_alloc
                            /\ e.score = d.score
          IN  /\ Len(killed_history') = old + Cardinality(K)
              /\ SubSeq(killed_history', 1, old) = killed_history
              /\ Len(adjusted') = Len(decisions) - Cardinality(K)
              /\ \A i \in K :
                    /\ Cardinality({j \in New :
                                       Same(killed_history'[j], decisions[i])})
                           = Cardinality({k \in K :
                                             Same(decisions[k], decisions[i])})
                    /\ Cardinality({j \in 1..Len(adjusted') :
                                       adjusted'[j].pid = decisions[i].pid})
                           = Cardinality({k \in Scored \ K :
                                             decisions[k].pid
                                                 = decisions[i].pid})]_vars

\* C18 witness: chrome.exe was killed in two cycles running; killed_history
\* holds both entries and the adjusted set of the second cycle has no row of
\* its pid.
C18_Witness ==
    /\ pc = "recover"
    /\ cycle = 2
    /\ Len(killed_history) = 2
    /\ decisions[1].action = "kill"
    /\ killed_history[2].pid = decisions[1].pid
    /\ killed_history[2].score = decisions[1].score
    /\ killed_history[2].v_ram_alloc = decisions[1].v_ram_alloc
    /\ adjusted # <<>>
    /\ \A j \in 1..Len(adjusted) : adjusted[j].pid # decisions[1].pid

\* C19: a scoring step sets the wait time of every scored task's pid to its
\* value before the step (0 if it had none) plus refresh_interval when the
\* task's v_cpu_alloc is below 5.0, and otherwise to that value minus
\* refresh_interval, or 0 if that would be negative; no wait time is ever
\* negative.
C19_WaitTimesStepAndFloor ==
    [][/\ \A k \in DOMAIN wait_times' : wait_times'[k] >= 0
       /\ pc = "score" =>
              \A i \in 1..Len(decisions') :
                  LET d == decisions'[i]
                      prev == Get(wait_times, IntKey(d.pid), 0)
                      once == Cardinality({j \in 1..Len(decisions') :
                                              decisions'[j].pid = d.pid}) = 1
                  IN  once =>
                          /\ IntKey(d.pid) \in DOMAIN wait_times'
                          /\ wait_times'[IntKey(d.pid)] = d.wait_time_sec
                          /\ d.v_cpu_alloc < 500 =>
                                 d.wait_time_sec = prev + refresh_interval
                          /\ (d.v_cpu_alloc >= 500 /\ prev >= refresh_interval)
                                 => d.wait_time_sec = prev - refresh_interval
                          /\ (d.v_cpu_alloc >= 500 /\ prev < refresh_interval)
                                 => d.wait_time_sec = 0]_vars

\* C19 witness: after two cycles an idle task new to the session has waited
\* two intervals, a busy task that had waited 126 s is down by two intervals,
\* and a busy task with no wait is still at 0.
C19_Witness ==
    /\ pc = "apply"
    /\ cycle = 2
    /\ \E i \in Scored :
          /\ decisions[i].v_cpu_alloc < 500
          /\ decisions[i].pid = 3
          /\ decisions[i].wait_time_sec = 2 * refresh_interval
    /\ \E i \in Scored :
          /\ decisions[i].v_cpu_alloc >= 500
          /\ decisions[i].wait_time_sec = 126 - 2 * refresh_interval
    /\ \E i \in Scored :
          /\ decisions[i].v_cpu_alloc >= 500
          /\ decisions[i].wait_time_sec = 0

\* C20: the eviction loop of a cycle runs at most as many iterations as there
\* were survivors when it was entered.
C20_EvictionsBoundedBySurvivors ==
    pc \in {"evict", "finish"} => evict_iters <= Len(AdjustedOf(decisions))

\* C20 witness: a cycle in which one task was killed, so that score_map held
\* more pids than there were survivors, has left the eviction loop after an
\* eviction.
C20_Witness ==
    /\ pc = "finish"
    /\ evict_iters >= 1
    /\ \E i \in Scored : decisions[i].action = "kill"
    /\ Len(AdjustedOf(decisions)) < Len(decisions)
    /\ Len(adjusted) < Len(AdjustedOf(decisions))

\* C21: an iteration of the eviction loop that changes the survivor set
\* removes exactly one survivor, and every survivor that remains has a score
\* at least as great as the removed one's.
C21_EvictsLowestOneAtATime ==
    [][(pc = "evict" /\ adjusted' # adjusted) =>
          LET ScoreOfRow(row) ==
                  decisions[CHOOSE k \in Scored :
                                /\ decisions[k].pid = row.pid
                                /\ decisions[k].name = row.name].score
              Removed == {i \in 1..Len(adjusted) :
                             \A j \in 1..Len(adjusted') :
                                 adjusted'[j].pid # adjusted[i].pid}
          IN  /\ Len(adjusted') = Len(adjusted) - 1
              /\ Cardinality(Removed) = 1
              /\ \A i \in Removed :
                     \A j \in 1..Len(adjusted') :
                         ScoreOfRow(adjusted'[j]) >= ScoreOfRow(adjusted[i])
      ]_vars

\* C21 witness: the loop has evicted the task of the least score, the last
\* of the decisions, and the other survivors are all still there.
C21_Witness ==
    /\ pc = "finish"
    /\ evict_iters = 1
    /\ Len(adjusted) >= 2
    /\ Len(adjusted) = Len(AdjustedOf(decisions)) - 1
    /\ \A j \in 1..Len(adjusted) :
           adjusted[j].pid # decisions[Len(decisions)].pid
    /\ decisions[Len(decisions)].score < decisions[Len(decisions) - 1].score

\* C22: the compression step keeps every survivor and its v_cpu_alloc, an
\* eviction step leaves the rows it keeps as they are, and when the
\* survivors' total RAM is within the capacity the recovery stage changes no
\* row and evicts nothing.
C22_RecoveryChangesRamOnly ==
    [][/\ pc = "recover" =>
              /\ Len(adjusted') = Len(adjusted)
              /\ \A i \in 1..Len(adjusted) :
                     /\ adjusted'[i].pid = adjusted[i].pid
                     /\ adjusted'[i].v_cpu_alloc = adjusted[i].v_cpu_alloc
       /\ pc = "evict" =>
              \A j \in 1..Len(adjusted') :
                  \E i \in 1..Len(adjusted) : adjusted[i] = adjusted'[j]
       /\ (pc = "recover" /\ SumVRam(adjusted) <= ram_mb * 100) =>
              /\ adjusted' = adjusted
              /\ pc' = "finish"]_vars

\* C22 witness: survivors above the capacity of 1024 MB were compressed; they
\* hold less RAM than before and the CPU they held before.
C22_Witness ==
    /\ pc = "finish"
    /\ evict_iters = 0
    /\ ram_mb = 1024
    /\ SumVRam(AdjustedOf(decisions)) > ram_mb * 100
    /\ SumVRam(adjusted) < SumVRam(AdjustedOf(decisions))
    /\ SumVCpu(adjusted) > 0
    /\ \A i \in 1..Len(adjusted) :
           adjusted[i].v_cpu_alloc = AdjustedOf(decisions)[i].v_cpu_alloc

\* C23 (as claimed): the action of a scored record agrees with the score the
\* record reports: kill from 0.75, preempt from 0.45 and below 0.75, wait
\* below 0.45.
C23_ActionMatchesReportedScore ==
    \A i \in Scored :
        /\ decisions[i].score >= 750 => decisions[i].action = "kill"
        /\ (decisions[i].score >= 450 /\ decisions[i].score < 750)
               => decisions[i].action = "preempt"
        /\ decisions[i].score < 450 => decisions[i].action = "wait"

\* C24: the status of a cycle is computed from the RAM total left by the
\* recovery stage: "Overload" is logged only with a total equal to RAM_MB, no
\* logged total is above RAM_MB, and a total below 80% of RAM_MB is logged as
\* "Stable".
C24_StatusFromPostRecoveryTotal ==
    /\ pc = "finish" => total_vram = SumVRam(adjusted)
    /\ \A i \in 1..Len(log) :
           /\ log[i].status = "Overload" => log[i].total_vram = ram_mb * 100
           /\ log[i].total_vram <= ram_mb * 100
           /\ log[i].total_vram < ram_mb * 80 => log[i].status = "Stable"

\* a cycle that needed recovery was logged as "Overload" with its total at
\* RAM_MB, and another cycle of the run was logged as "Stable"
C24_Witness ==
    /\ pc = "top"
    /\ Len(log) >= 2
    /\ log[Len(log)].status = "Overload"
    /\ log[Len(log)].total_vram = ram_mb * 100
    /\ SumVRam(AdjustedOf(decisions)) > ram_mb * 100
    /\ \E i \in 1..Len(log) :
           log[i].status = "Stable" /\ log[i].total_vram < ram_mb * 80

====
